---- MODULE Spec2Model ----
(***************************************************************************)
(* Model of the scoring API (src/api.py): the declarative field            *)
(* descriptors, the schema engine BaseRequest.validate, the three request  *)
(* schemas, check_auth, the two business handlers, method_handler and      *)
(* MainHTTPHandler.do_POST.                                                *)
(*                                                                         *)
(* JSON values are records [t, s, n, l, d]:                                *)
(*   t  the Python type after json.loads: "null", "bool", "int", "str",    *)
(*      "list", "dict";                                                    *)
(*   s  the characters of a str (a sequence of one-character strings);     *)
(*   n  the number of an int, or 0/1 for a bool;                           *)
(*   l  the elements of a list, each [t, n] with t in "int","bool","str";  *)
(*   d  the items of a dict, a function from key names to values.          *)
(* A keyword mapping (the **kwargs of a request class) is a function from  *)
(* the supplied field names to such values.                                *)
(***************************************************************************)
EXTENDS Integers, Sequences, FiniteSets, TLC

(***************************************************************************)
(* Bounds of the model.                                                    *)
(***************************************************************************)
MaxTicks == 1

MaxClientIds == 2

MaxOddFields == 2

MaxOddArguments == 1

\* the largest number of attempts a store operation is called with
MaxAttempts == 5

(***************************************************************************)
(* Program constants, src/api.py:15-38.                                    *)
(***************************************************************************)
SALT == <<"O", "t", "u", "s">>

ADMIN_LOGIN == <<"a", "d", "m", "i", "n">>

ADMIN_SALT == <<"4", "2">>

OK == 200

BAD_REQUEST == 400

FORBIDDEN == 403

NOT_FOUND == 404

INVALID_REQUEST == 422

INTERNAL_ERROR == 500

ERRORS ==
    (BAD_REQUEST :> "Bad Request") @@ (FORBIDDEN :> "Forbidden") @@
    (NOT_FOUND :> "Not Found") @@ (INVALID_REQUEST :> "Invalid Request") @@
    (INTERNAL_ERROR :> "Internal Server Error")

GENDERS == {0, 1, 2}

(***************************************************************************)
(* JSON values.                                                            *)
(***************************************************************************)
NoItems == [k \in {} |-> 0]

Null == [t |-> "null", s |-> <<>>, n |-> 0, l |-> <<>>, d |-> NoItems]

Bool(b) == [t |-> "bool", s |-> <<>>, n |-> IF b THEN 1 ELSE 0, l |-> <<>>, d |-> NoItems]

Num(k) == [t |-> "int", s |-> <<>>, n |-> k, l |-> <<>>, d |-> NoItems]

Str(chars) == [t |-> "str", s |-> chars, n |-> 0, l |-> <<>>, d |-> NoItems]

List(elems) == [t |-> "list", s |-> <<>>, n |-> 0, l |-> elems, d |-> NoItems]

Dict(items) == [t |-> "dict", s |-> <<>>, n |-> 0, l |-> <<>>, d |-> items]

\* The marker of a key that the mapping does not hold; never a value.
Absent == [t |-> "absent", s |-> <<>>, n |-> 0, l |-> <<>>, d |-> NoItems]

IntElem(k) == [t |-> "int", n |-> k]

BoolElem(b) == [t |-> "bool", n |-> IF b THEN 1 ELSE 0]

StrElem == [t |-> "str", n |-> 0]

\* isinstance(value, string_types)
IsStr(v) == v.t = "str"

\* isinstance(value, int): bool is a subclass of int
IsInt(v) == v.t \in {"int", "bool"}

(***************************************************************************)
(* Strings and numbers.                                                    *)
(***************************************************************************)
DigitChars == <<"0", "1", "2", "3", "4", "5", "6", "7", "8", "9">>

IsDigit(c) == \E i \in 1..10 : DigitChars[i] = c

DigitVal(c) == CHOOSE i \in 0..9 : DigitChars[i + 1] = c

RECURSIVE ToInt(_)
\* int() of a string of decimal digits
ToInt(chars) ==
    IF chars = <<>> THEN 0
    ELSE ToInt(SubSeq(chars, 1, Len(chars) - 1)) * 10 + DigitVal(chars[Len(chars)])

RECURSIVE NatToStr(_)
NatToStr(k) ==
    IF k < 10 THEN <<DigitChars[k + 1]>>
    ELSE NatToStr(k \div 10) \o <<DigitChars[(k % 10) + 1]>>

RECURSIVE Pad(_, _)
\* the number k written with exactly w digits, zero padded
Pad(k, w) ==
    IF w = 0 THEN <<>> ELSE Pad(k \div 10, w - 1) \o <<DigitChars[(k % 10) + 1]>>

\* str(value) for a str, an int or a bool
PyStr(v) ==
    CASE v.t = "str" -> v.s
      [] v.t = "int" -> IF v.n < 0 THEN <<"-">> \o NatToStr(0 - v.n) ELSE NatToStr(v.n)
      [] v.t = "bool" -> IF v.n = 1 THEN <<"T", "r", "u", "e">> ELSE <<"F", "a", "l", "s", "e">>

\* "c" in chars, for a one-character c
Contains(chars, c) == \E i \in 1..Len(chars) : chars[i] = c

(***************************************************************************)
(* datetime: strptime(value, '%d.%m.%Y') and strftime("%Y%m%d%H").         *)
(***************************************************************************)
IsLeap(y) == (y % 4 = 0 /\ y % 100 # 0) \/ y % 400 = 0

DaysInMonth(y, m) ==
    IF m = 2 THEN (IF IsLeap(y) THEN 29 ELSE 28)
    ELSE IF m \in {4, 6, 9, 11} THEN 30 ELSE 31

NonZeroDigit(c) == IsDigit(c) /\ c # "0"

\* the directive %d: 3[0-1] | [1-2]\d | 0[1-9] | [1-9] | " "[1-9]
DayDirective(p) ==
    \/ Len(p) = 2 /\ p[1] = "3" /\ p[2] \in {"0", "1"}
    \/ Len(p) = 2 /\ p[1] \in {"1", "2"} /\ IsDigit(p[2])
    \/ Len(p) = 2 /\ p[1] = "0" /\ NonZeroDigit(p[2])
    \/ Len(p) = 1 /\ NonZeroDigit(p[1])
    \/ Len(p) = 2 /\ p[1] = " " /\ NonZeroDigit(p[2])

\* the directive %m: 1[0-2] | 0[1-9] | [1-9]
MonthDirective(p) ==
    \/ Len(p) = 2 /\ p[1] = "1" /\ p[2] \in {"0", "1", "2"}
    \/ Len(p) = 2 /\ p[1] = "0" /\ NonZeroDigit(p[2])
    \/ Len(p) = 1 /\ NonZeroDigit(p[1])

\* the directive %Y: \d\d\d\d
YearDirective(p) == Len(p) = 4 /\ \A i \in 1..4 : IsDigit(p[i])

NoDate == [ok |-> FALSE, year |-> 0, month |-> 0, day |-> 0]

\* datetime.datetime.strptime(chars, '%d.%m.%Y') of a str: ok is FALSE where
\* strptime raises ValueError (no match of the format, or no such day).
Strptime(chars) ==
    LET dots == {i \in 1..Len(chars) : chars[i] = "."}
    IN  IF Cardinality(dots) # 2 THEN NoDate
        ELSE
          LET i1 == CHOOSE i \in dots : \A j \in dots : i <= j
              i2 == CHOOSE i \in dots : \A j \in dots : j <= i
              dd == SubSeq(chars, 1, i1 - 1)
              mm == SubSeq(chars, i1 + 1, i2 - 1)
              yy == SubSeq(chars, i2 + 1, Len(chars))
          IN  IF ~(DayDirective(dd) /\ MonthDirective(mm) /\ YearDirective(yy))
              THEN NoDate
              ELSE
                LET day == ToInt(IF dd[1] = " " THEN Tail(dd) ELSE dd)
                    month == ToInt(mm)
                    year == ToInt(yy)
                IN  IF year < 1 \/ day > DaysInMonth(year, month) THEN NoDate
                    ELSE [ok |-> TRUE, year |-> year, month |-> month, day |-> day]

\* now.strftime("%Y%m%d%H")
Strftime(t) == Pad(t.year, 4) \o Pad(t.month, 2) \o Pad(t.day, 2) \o Pad(t.hour, 2)

\* the clock one hour later
NextHour(t) ==
    IF t.hour < 23 THEN [t EXCEPT !.hour = t.hour + 1]
    ELSE IF t.day < DaysInMonth(t.year, t.month)
         THEN [t EXCEPT !.hour = 0, !.day = t.day + 1]
    ELSE IF t.month < 12
         THEN [t EXCEPT !.hour = 0, !.day = 1, !.month = t.month + 1]
    ELSE [year |-> t.year + 1, month |-> 1, day |-> 1, hour |-> 0]

\* hashlib.sha512(key.encode('utf-8')).hexdigest(): an injective image of the
\* key, told apart from every other string by its first element.
Sha512Hex(key) == <<"sha512">> \o key

(***************************************************************************)
(* Field descriptors.  A verdict is what field.validate(value) does: it    *)
(* returns ("ok"), raises ValueError with a message, or raises TypeError.  *)
(***************************************************************************)
Pass == [res |-> "ok", msg |-> ""]

ValueError(m) == [res |-> "ValueError", msg |-> m]

TypeError == [res |-> "TypeError", msg |-> ""]

\* Field.empty_values = (None, (), [], ''): value in empty_values
InEmptyValues(v) ==
    \/ v.t = "null"
    \/ v.t = "list" /\ v.l = <<>>
    \/ v.t = "str" /\ v.s = <<>>

CharField_validate(v) ==
    IF ~IsStr(v) THEN ValueError("This field must be a string") ELSE Pass

ArgumentsField_validate(v) ==
    IF v.t # "dict" THEN ValueError("This field must be a dict") ELSE Pass

EmailField_validate(v) ==
    IF CharField_validate(v).res # "ok" THEN CharField_validate(v)
    ELSE IF ~Contains(v.s, "@") THEN ValueError("Invalid email address")
    ELSE Pass

PhoneField_validate(v) ==
    IF ~IsStr(v) /\ ~IsInt(v)
    THEN ValueError("Phone number must be numeric or string value")
    ELSE LET str == PyStr(v)
         IN  IF \/ ~(Len(str) >= 1 /\ str[1] = "7")
                \/ ~(Len(str) = 11)
                \/ ~(Len(str) >= 1 /\ \A i \in 1..Len(str) : IsDigit(str[i]))
             THEN ValueError("Incorect phone number format, should be 7XXXXXXXXXX")
             ELSE Pass

DateField_validate(v) ==
    IF ~IsStr(v) THEN TypeError
    ELSE IF ~Strptime(v.s).ok
    THEN ValueError("Incorect date format, should be DD.MM.YYYY")
    ELSE Pass

\* the rest of BirthDayField.validate after the call of super().validate,
\* which did what the verdict date tells
BirthDayRange(date, v, t) ==
    IF date.res # "ok" THEN date
    ELSE IF t.year - Strptime(v.s).year > 70 THEN ValueError("Incorrect birth day")
    ELSE Pass

BirthDayField_validate(v, t) == BirthDayRange(DateField_validate(v), v, t)

\* value not in GENDERS: a list or a dict is unhashable
GenderField_validate(v) ==
    IF v.t \in {"list", "dict"} THEN TypeError
    ELSE IF ~(IsInt(v) /\ v.n \in GENDERS)
    THEN ValueError("Gender must be equal to 0,1 or 2")
    ELSE Pass

ClientIDsField_validate(v) ==
    IF v.t # "list" THEN ValueError("Invalid data type, must be an array")
    ELSE IF ~(\A i \in 1..Len(v.l) : v.l[i].t \in {"int", "bool"} /\ v.l[i].n >= 0)
    THEN ValueError("All elements must be positive integers")
    ELSE Pass

(***************************************************************************)
(* Request schemas: the declared fields of each request class, in the      *)
(* order of the class body (the order in which validate() visits them).    *)
(***************************************************************************)
Field(name, type, required, nullable) ==
    [name |-> name, type |-> type, required |-> required, nullable |-> nullable]

ClientsInterestsRequest ==
    << Field("client_ids", "ClientIDsField", TRUE, FALSE),
       Field("date", "DateField", FALSE, TRUE) >>

OnlineScoreRequest ==
    << Field("first_name", "CharField", FALSE, TRUE),
       Field("last_name", "CharField", FALSE, TRUE),
       Field("email", "EmailField", FALSE, TRUE),
       Field("phone", "PhoneField", FALSE, TRUE),
       Field("birthday", "BirthDayField", FALSE, TRUE),
       Field("gender", "GenderField", FALSE, TRUE) >>

MethodRequest ==
    << Field("account", "CharField", FALSE, TRUE),
       Field("login", "CharField", TRUE, TRUE),
       Field("token", "CharField", TRUE, TRUE),
       Field("arguments", "ArgumentsField", TRUE, TRUE),
       Field("method", "CharField", TRUE, FALSE) >>

Schemas ==
    [ClientsInterestsRequest |-> ClientsInterestsRequest,
     OnlineScoreRequest |-> OnlineScoreRequest,
     MethodRequest |-> MethodRequest]

FieldNames(fields) == {fields[i].name : i \in 1..Len(fields)}

\* field.validate(value), dispatched on the class of the descriptor
Field_validate(type, v, t) ==
    CASE type = "CharField" -> CharField_validate(v)
      [] type = "ArgumentsField" -> ArgumentsField_validate(v)
      [] type = "EmailField" -> EmailField_validate(v)
      [] type = "PhoneField" -> PhoneField_validate(v)
      [] type = "DateField" -> DateField_validate(v)
      [] type = "BirthDayField" -> BirthDayField_validate(v, t)
      [] type = "GenderField" -> GenderField_validate(v)
      [] type = "ClientIDsField" -> ClientIDsField_validate(v)

(***************************************************************************)
(* The schema engine.  An error map is a function from keys to entries     *)
(* [msg, exc]: exc tells that the entry is the ValueError object itself    *)
(* (self._errors[name] = e), not a string.                                 *)
(***************************************************************************)
NoErrors == [k \in {} |-> [msg |-> "", exc |-> FALSE]]

Put(map, key, val) == [k \in DOMAIN map \cup {key} |-> IF k = key THEN val ELSE map[k]]

Message(m) == [msg |-> m, exc |-> FALSE]

Exception(m) == [msg |-> m, exc |-> TRUE]

\* The blank check of a supplied value: errs, with the entry of line 174.
Blank(f, value, errs) ==
    IF InEmptyValues(value) /\ ~f.nullable
    THEN Put(errs, f.name, Message("This field can't be blank"))
    ELSE errs

\* The try block of lines 176-179 on a field whose field.validate did what
\* verdict tells: a ValueError becomes the entry of the field, a TypeError is
\* not caught and leaves validate() as an exception.
Try(errs, name, verdict) ==
    [raised |-> verdict.res = "TypeError",
     errors |-> IF verdict.res = "ValueError"
                THEN Put(errs, name, Exception(verdict.msg))
                ELSE errs]

\* One turn of the loop of BaseRequest.validate, for the declared field f;
\* done is [raised, errors] after the fields before f.
Visit(f, kwargs, done, t) ==
    IF done.raised THEN done
    ELSE IF f.name \notin DOMAIN kwargs
    THEN [raised |-> FALSE,
          errors |-> IF f.required
                     THEN Put(done.errors, f.name, Message("This field is required"))
                     ELSE done.errors]
    ELSE Try(Blank(f, kwargs[f.name], done.errors), f.name,
             Field_validate(f.type, kwargs[f.name], t))

RECURSIVE ValidateUpTo(_, _, _, _)
\* the loop of BaseRequest.validate over the first n declared fields
ValidateUpTo(fields, n, kwargs, t) ==
    IF n = 0 THEN [raised |-> FALSE, errors |-> NoErrors]
    ELSE Visit(fields[n], kwargs, ValidateUpTo(fields, n - 1, kwargs, t), t)

BaseRequest_validate(fields, kwargs, t) == ValidateUpTo(fields, Len(fields), kwargs, t)

\* the three pairs of OnlineScoreRequest.validate, over base_fields
HasPair(base_fields) ==
    \/ "phone" \in base_fields /\ "email" \in base_fields
    \/ "first_name" \in base_fields /\ "last_name" \in base_fields
    \/ "gender" \in base_fields /\ "birthday" \in base_fields

\* The cross-field rule of OnlineScoreRequest.validate after
\* super().validate(), which did what base tells.
CrossFieldRule(base, base_fields) ==
    IF base.raised \/ DOMAIN base.errors # {} \/ HasPair(base_fields) THEN base
    ELSE [raised |-> FALSE,
          errors |-> Put(base.errors, "arguments", Message("No valid arguments pair"))]

\* the cross-field rule without the guard "if not self._errors"
CrossFieldRule_unguarded(base, base_fields) ==
    IF base.raised \/ HasPair(base_fields) THEN base
    ELSE [raised |-> FALSE,
          errors |-> Put(base.errors, "arguments", Message("No valid arguments pair"))]

OnlineScoreRequest_validate_unguarded(kwargs, t) ==
    CrossFieldRule_unguarded(BaseRequest_validate(OnlineScoreRequest, kwargs, t),
                             DOMAIN kwargs)

OnlineScoreRequest_validate(kwargs, t) ==
    CrossFieldRule(BaseRequest_validate(OnlineScoreRequest, kwargs, t), DOMAIN kwargs)

\* r.validate() of a request of the class named schema
Request_validate(schema, kwargs, t) ==
    IF schema = "OnlineScoreRequest" THEN OnlineScoreRequest_validate(kwargs, t)
    ELSE BaseRequest_validate(Schemas[schema], kwargs, t)

\* BaseRequest.is_valid
is_valid(errs) == DOMAIN errs = {}

(***************************************************************************)
(* Inputs.  Every field has a well-formed sample (client_ids has the lists *)
(* of ClientIdLists); OddValues are values of every JSON type, the empty   *)
(* ones included.  A keyword mapping gives each declared field nothing or  *)
(* a well-formed value, except for a few fields that hold any of the       *)
(* OddValues.                                                              *)
(***************************************************************************)
Chars_online_score == <<"o", "n", "l", "i", "n", "e", "_", "s", "c", "o", "r", "e">>

Chars_clients_interests ==
    <<"c", "l", "i", "e", "n", "t", "s", "_", "i", "n", "t", "e", "r", "e", "s", "t", "s">>

\* the lists of at most MaxClientIds client ids, over the ids 0, 1 and True
ClientIdLists ==
    UNION { [1..len -> {IntElem(0), IntElem(1), BoolElem(TRUE)}] : len \in 1..MaxClientIds }

Sample ==
    [account |-> Str(<<"h", "h">>),
     login |-> Str(<<"h", "f">>),
     token |-> Str(<<"t">>),
     arguments |-> Dict(NoItems),
     method |-> Str(Chars_online_score),
     first_name |-> Str(<<"A">>),
     last_name |-> Str(<<"B">>),
     email |-> Str(<<"a", "@", "b">>),
     phone |-> Str(<<"7", "9", "9", "9", "8", "8", "8", "7", "7", "6", "6">>),
     birthday |-> Str(<<"0", "1", ".", "0", "1", ".", "1", "9", "5", "6">>),
     gender |-> Num(1),
     client_ids |-> List(<<IntElem(1), IntElem(2)>>),
     date |-> Str(<<"0", "8", ".", "0", "4", ".", "2", "0", "1", "8">>)]

OddValues ==
    { Null, Bool(TRUE), Num(0), Num(3),
      Str(<<>>), Str(<<"x">>),
      Str(<<"3", "1", ".", "1", "2", ".", "1", "9", "5", "5">>),
      List(<<>>), List(<<IntElem(1), IntElem(1)>>),
      Dict(NoItems) }

\* the sets of at most maxOdd of the names
OddSets(names, maxOdd) == {o \in SUBSET names : Cardinality(o) <= maxOdd}

\* the client id lists to choose from where client_ids is given
IdChoices(given) == IF "client_ids" \in given THEN ClientIdLists ELSE {<<>>}

\* the keyword mapping that gives the fields of odd the values vals and the
\* fields of given their sample, client_ids being the list ids
Mapping(given, odd, vals, ids) ==
    [k \in given \cup odd |->
        IF k \in odd THEN vals[k]
        ELSE IF k = "client_ids" THEN List(ids)
        ELSE Sample[k]]

(***************************************************************************)
(* State.                                                                  *)
(***************************************************************************)
VARIABLES
    now,       \* datetime.datetime.now(), to the hour
    ticks,     \* hours passed since the start
    phase,     \* "idle", "constructed", "validated", "responded"
    req,       \* the request object under validation
    call,      \* the call being answered: entry point, path and body
    reply,     \* what the entry point gave back
    ctx,       \* the context mapping handed to method_handler
    storeOps,  \* the store operations of the call, in order
    collab,    \* the calls of the scoring module in the call, with what they gave
    auth,      \* what check_auth did in the call
    backend,   \* the contents of the redis server: key -> value, or "None"
    frame      \* the Store method being executed, with its local variables

vars == <<now, ticks, phase, req, call, reply, ctx, storeOps, collab, auth,
          backend, frame>>

StartTime == [year |-> 2026, month |-> 12, day |-> 31, hour |-> 23]

NoKwargs == [k \in {} |-> Absent]

NoRequest ==
    [schema |-> "", kwargs |-> NoKwargs, base_fields |-> {},
     errors |-> NoErrors, raised |-> FALSE]

NoCall == [entry |-> "", path |-> <<>>, parsed |-> FALSE, body |-> Absent]

NoResponse ==
    [kind |-> "none", errors |-> NoErrors, text |-> "", score |-> 0,
     interests |-> <<>>]

EmptyResponse == [NoResponse EXCEPT !.kind = "empty"]

NoReply ==
    [raised |-> "", code |-> 0, field |-> "", response |-> NoResponse, written |-> FALSE]

EmptyContext == [keys |-> {}, has |-> {}, nclients |-> 0]

\* the keys and the values of the redis server; "None" is a missing key
Keys == {"i:1", "uid:1"}

Stored == {"a", "b"}

\* What a command sent to the server does: it answers, it raises the
\* TimeoutError that the Store methods catch, or it raises another exception
\* (a refused or dropped connection).
Outcomes == {"ok", "TimeoutError", "redis.ConnectionError"}

\* no Store method is being executed
NoFrame ==
    [op |-> "", key |-> "", arg |-> "None", n |-> 0, attempts |-> 0,
     commands |-> <<>>, value |-> "None", status |-> "idle", result |-> "None",
     exc |-> ""]

Init ==
    /\ now = StartTime
    /\ ticks = 0
    /\ phase = "idle"
    /\ req = NoRequest
    /\ call = NoCall
    /\ reply = NoReply
    /\ ctx = EmptyContext
    /\ storeOps = <<>>
    /\ collab = <<>>
    /\ auth = "none"
    /\ backend = [k \in Keys |-> "None"]
    /\ frame = NoFrame

(***************************************************************************)
(* The schema engine on its own: a request object is constructed from a    *)
(* keyword mapping, validated once, and dropped.                           *)
(***************************************************************************)
\* BaseRequest.__init__(**kwargs)
BaseRequest_init(schema, kwargs) ==
    [schema |-> schema, kwargs |-> kwargs, base_fields |-> DOMAIN kwargs,
     errors |-> NoErrors, raised |-> FALSE]

Construct ==
    /\ phase = "idle"
    /\ \E schema \in DOMAIN Schemas :
         \E odd \in OddSets(FieldNames(Schemas[schema]), MaxOddFields) :
         \E given \in SUBSET (FieldNames(Schemas[schema]) \ odd) :
         \E vals \in [odd -> OddValues], ids \in IdChoices(given) :
            req' = BaseRequest_init(schema, Mapping(given, odd, vals, ids))
    /\ phase' = "constructed"
    /\ UNCHANGED <<now, ticks, call, reply, ctx, storeOps, collab, auth, backend, frame>>

Validate ==
    /\ phase = "constructed"
    /\ LET res == Request_validate(req.schema, req.kwargs, now)
       IN  req' = [req EXCEPT !.errors = res.errors, !.raised = res.raised]
    /\ phase' = "validated"
    /\ UNCHANGED <<now, ticks, call, reply, ctx, storeOps, collab, auth, backend, frame>>

Discard ==
    /\ phase = "validated"
    /\ req' = NoRequest
    /\ phase' = "idle"
    /\ UNCHANGED <<now, ticks, call, reply, ctx, storeOps, collab, auth, backend, frame>>

\* An hour passes between two requests.
Tick ==
    /\ phase = "idle"
    /\ ticks < MaxTicks
    /\ now' = NextHour(now)
    /\ ticks' = ticks + 1
    /\ UNCHANGED <<phase, req, call, reply, ctx, storeOps, collab, auth, backend, frame>>

NextValidate == Tick \/ Construct \/ Validate \/ Discard

SpecValidate == Init /\ [][NextValidate]_vars

(***************************************************************************)
(* Authentication.                                                         *)
(***************************************************************************)
\* MethodRequest.is_admin
is_admin(kwargs) == kwargs["login"].s = ADMIN_LOGIN

\* check_auth(request) of a validated envelope: "true", "false", or "raised"
\* where it raises TypeError.  An envelope built without account has no
\* instance attribute of that name, so request.account is the CharField
\* descriptor of the class, and descriptor + str raises.
check_auth(kwargs, t) ==
    IF kwargs["login"].s = ADMIN_LOGIN
    THEN IF Sha512Hex(Strftime(t) \o ADMIN_SALT) = kwargs["token"].s
         THEN "true" ELSE "false"
    ELSE IF "account" \notin DOMAIN kwargs THEN "raised"
    ELSE IF Sha512Hex(kwargs["account"].s \o kwargs["login"].s \o SALT) = kwargs["token"].s
         THEN "true" ELSE "false"

(***************************************************************************)
(* The collaborators of the handlers (module scoring, over the store).     *)
(***************************************************************************)
CacheGet == [op |-> "cache_get", key |-> <<>>]

CacheSet == [op |-> "cache_set", key |-> <<>>]

\* get_score(store, ...): reads the cache and, on a miss, computes the score
\* and caches it; score is what it returns.
get_score(score, hit) ==
    [score |-> score, ops |-> IF hit THEN <<CacheGet>> ELSE <<CacheGet, CacheSet>>,
     call |-> [fn |-> "get_score", arg |-> <<>>, ret |-> score]]

\* the store key of a client id, "i:%s" % cid
InterestsKey(cid) == <<"i", ":">> \o PyStr(cid)

\* get_interests(store, cid): one store.get of the key of cid
get_interests(cid) ==
    [op |-> [op |-> "get", key |-> InterestsKey(cid)],
     call |-> [fn |-> "get_interests", arg |-> PyStr(cid), ret |-> 0]]

(***************************************************************************)
(* Business handlers.  A result is [raised, code, response, ctx, ops,      *)
(* calls]: raised names the exception that left the handler ("" for none). *)
(***************************************************************************)
ErrorsResponse(errs) == [NoResponse EXCEPT !.kind = "errors", !.errors = errs]

TextResponse(text) == [NoResponse EXCEPT !.kind = "text", !.text = text]

ScoreResponse(score) == [NoResponse EXCEPT !.kind = "score", !.score = score]

InterestsResponse(map) == [NoResponse EXCEPT !.kind = "interests", !.interests = map]

Returned(response, code, context, ops, calls) ==
    [raised |-> "", code |-> code, response |-> response, ctx |-> context,
     ops |-> ops, calls |-> calls]

Raised(exception, context, ops, calls) ==
    [raised |-> exception, code |-> 0, response |-> NoResponse, ctx |-> context,
     ops |-> ops, calls |-> calls]

\* online_score_handler after r.validate(), which did what r tells; scored is
\* what get_score does if it is called.
ScoreValidated(request, context, r, scored) ==
    IF r.raised THEN Raised("TypeError", context, <<>>, <<>>)
    ELSE IF ~is_valid(r.errors)
    THEN Returned(ErrorsResponse(r.errors), INVALID_REQUEST, context, <<>>, <<>>)
    ELSE IF is_admin(request)
    THEN Returned(ScoreResponse(42), OK,
                  [context EXCEPT !.keys = @ \cup {"has"},
                                  !.has = DOMAIN request["arguments"].d],
                  <<>>, <<>>)
    ELSE Returned(ScoreResponse(scored.score), OK,
                  [context EXCEPT !.keys = @ \cup {"has"},
                                  !.has = DOMAIN request["arguments"].d],
                  scored.ops, <<scored.call>>)

\* the same without the branch "if request.is_admin"
ScoreValidated_no_admin(request, context, r, scored) ==
    IF r.raised THEN Raised("TypeError", context, <<>>, <<>>)
    ELSE IF ~is_valid(r.errors)
    THEN Returned(ErrorsResponse(r.errors), INVALID_REQUEST, context, <<>>, <<>>)
    ELSE Returned(ScoreResponse(scored.score), OK,
                  [context EXCEPT !.keys = @ \cup {"has"},
                                  !.has = DOMAIN request["arguments"].d],
                  scored.ops, <<scored.call>>)

online_score_handler_no_admin(request, context, t, score, hit) ==
    ScoreValidated_no_admin(request, context,
                            OnlineScoreRequest_validate(request["arguments"].d, t),
                            get_score(score, hit))

\* the same with ctx['has'] = r.base_fields ahead of the is_valid check
ScoreValidated_records_first(request, context, r, scored) ==
    IF r.raised THEN Raised("TypeError", context, <<>>, <<>>)
    ELSE IF ~is_valid(r.errors)
    THEN Returned(ErrorsResponse(r.errors), INVALID_REQUEST,
                  [context EXCEPT !.keys = @ \cup {"has"},
                                  !.has = DOMAIN request["arguments"].d],
                  <<>>, <<>>)
    ELSE ScoreValidated(request, context, r, scored)

online_score_handler_records_first(request, context, t, score, hit) ==
    ScoreValidated_records_first(request, context,
                                 OnlineScoreRequest_validate(request["arguments"].d, t),
                                 get_score(score, hit))

online_score_handler(request, context, t, score, hit) ==
    ScoreValidated(request, context,
                   OnlineScoreRequest_validate(request["arguments"].d, t),
                   get_score(score, hit))

\* the key under which a dict holds a client id: True == 1
DictKey(cid) == cid.n

RECURSIVE Lookups(_, _, _)
\* the get_interests calls of the loop over client_ids up to the n-th id; the
\* call number failAt raises ConnectionError and ends the loop
Lookups(ids, n, failAt) ==
    IF n = 0 THEN <<>>
    ELSE IF failAt # 0 /\ failAt < n THEN Lookups(ids, n - 1, failAt)
    ELSE Append(Lookups(ids, n - 1, failAt), get_interests(ids[n]))

\* the dict response after the loop over ids: the entry of a key is the one
\* of the last id with that key
Interests(ids) ==
    [key \in {DictKey(ids[i]) : i \in 1..Len(ids)} |->
        InterestsKey(ids[CHOOSE i \in 1..Len(ids) :
            /\ DictKey(ids[i]) = key
            /\ \A j \in 1..Len(ids) : DictKey(ids[j]) = key => j <= i])]

\* the loop of clients_interests_handler and what follows it; looked are the
\* get_interests calls made, nclients the value written to the context
InterestsLoop(context, ids, looked, failAt, nclients) ==
    IF failAt \in 1..Len(ids)
    THEN Raised("ConnectionError", context,
                [i \in 1..Len(looked) |-> looked[i].op],
                [i \in 1..Len(looked) |-> looked[i].call])
    ELSE Returned(InterestsResponse(Interests(ids)), OK,
                  [context EXCEPT !.keys = @ \cup {"nclients"}, !.nclients = nclients],
                  [i \in 1..Len(looked) |-> looked[i].op],
                  [i \in 1..Len(looked) |-> looked[i].call])

\* clients_interests_handler after r.validate(), which did what r tells
InterestsValidated(request, context, r, failAt) ==
    IF r.raised THEN Raised("TypeError", context, <<>>, <<>>)
    ELSE IF ~is_valid(r.errors)
    THEN Returned(ErrorsResponse(r.errors), INVALID_REQUEST, context, <<>>, <<>>)
    ELSE InterestsLoop(context, request["arguments"].d["client_ids"].l,
                       Lookups(request["arguments"].d["client_ids"].l,
                               Len(request["arguments"].d["client_ids"].l), failAt),
                       failAt, Len(request["arguments"].d["client_ids"].l))

\* the same with ctx["nclients"] = len(response)
InterestsValidated_counts_entries(request, context, r, failAt) ==
    IF r.raised THEN Raised("TypeError", context, <<>>, <<>>)
    ELSE IF ~is_valid(r.errors)
    THEN Returned(ErrorsResponse(r.errors), INVALID_REQUEST, context, <<>>, <<>>)
    ELSE InterestsLoop(context, request["arguments"].d["client_ids"].l,
                       Lookups(request["arguments"].d["client_ids"].l,
                               Len(request["arguments"].d["client_ids"].l), failAt),
                       failAt,
                       Cardinality(DOMAIN Interests(request["arguments"].d["client_ids"].l)))

clients_interests_handler_counts_entries(request, context, t, failAt) ==
    InterestsValidated_counts_entries(
        request, context,
        BaseRequest_validate(ClientsInterestsRequest, request["arguments"].d, t), failAt)

clients_interests_handler(request, context, t, failAt) ==
    InterestsValidated(
        request, context,
        BaseRequest_validate(ClientsInterestsRequest, request["arguments"].d, t), failAt)

(***************************************************************************)
(* The dispatcher.                                                         *)
(***************************************************************************)
handlers == {Chars_online_score, Chars_clients_interests}

WithAuth(a, res) == [auth |-> a] @@ res

\* method_handler after check_auth, which did what a tells
Authenticated(kwargs, context, t, score, hit, failAt, a) ==
    CASE a = "raised" -> WithAuth(a, Raised("TypeError", context, <<>>, <<>>))
      [] a = "false" ->
           WithAuth(a, Returned(TextResponse(ERRORS[FORBIDDEN]), FORBIDDEN, context,
                                <<>>, <<>>))
      [] a = "true" ->
           WithAuth(a, IF kwargs["method"].s \notin handlers
                       THEN Raised("KeyError", context, <<>>, <<>>)
                       ELSE IF kwargs["method"].s = Chars_online_score
                       THEN online_score_handler(kwargs, context, t, score, hit)
                       ELSE clients_interests_handler(kwargs, context, t, failAt))

\* method_handler after method_request.validate(), which did what v tells
EnvelopeValidated(kwargs, context, t, score, hit, failAt, v) ==
    IF v.raised THEN WithAuth("none", Raised("TypeError", context, <<>>, <<>>))
    ELSE IF ~is_valid(v.errors)
    THEN WithAuth("none", Returned(ErrorsResponse(v.errors), INVALID_REQUEST, context,
                                   <<>>, <<>>))
    ELSE Authenticated(kwargs, context, t, score, hit, failAt, check_auth(kwargs, t))

\* method_handler(request, ctx, store) where request["body"] is body; auth is
\* what check_auth did ("none" where it was not called).  A body that is not
\* a mapping cannot be passed as **kwargs.
method_handler(body, context, t, score, hit, failAt) ==
    IF body.t # "dict"
    THEN WithAuth("none", Raised("TypeError", context, <<>>, <<>>))
    ELSE EnvelopeValidated(body.d, context, t, score, hit, failAt,
                           BaseRequest_validate(MethodRequest, body.d, t))

(***************************************************************************)
(* The HTTP handler.                                                       *)
(***************************************************************************)
Chars_method == <<"m", "e", "t", "h", "o", "d">>

router == {Chars_method}

RECURSIVE Strip(_)
\* path.strip("/")
Strip(chars) ==
    IF chars = <<>> THEN chars
    ELSE IF Head(chars) = "/" THEN Strip(Tail(chars))
    ELSE IF chars[Len(chars)] = "/" THEN Strip(SubSeq(chars, 1, Len(chars) - 1))
    ELSE chars

\* bool(value) of a parsed JSON value
Truthy(v) ==
    CASE v.t = "null" -> FALSE
      [] v.t \in {"bool", "int"} -> v.n # 0
      [] v.t = "str" -> v.s # <<>>
      [] v.t = "list" -> v.l # <<>>
      [] v.t = "dict" -> DOMAIN v.d # {}

\* json.dumps(response) raises TypeError on a ValueError object
Serializable(response) ==
    \A k \in DOMAIN response.errors : ~response.errors[k].exc

\* the context of a POST and what do_POST starts from: response, code = {}, OK
PostContext == [EmptyContext EXCEPT !.keys = {"request_id"}]

Unrouted(code) == WithAuth("none", Returned(EmptyResponse, code, PostContext, <<>>, <<>>))

\* the try block around the router call: any exception becomes INTERNAL_ERROR
Caught(res) ==
    IF res.raised # ""
    THEN [res EXCEPT !.raised = "", !.code = INTERNAL_ERROR, !.response = EmptyResponse]
    ELSE res

\* lines 317-320: the body is {"response": ...} or {"error": ...}
BodyField(code) == IF code \notin DOMAIN ERRORS THEN "response" ELSE "error"

\* response or ERRORS.get(code, "Unknown Error")
Payload(routed) ==
    IF BodyField(routed.code) = "error" /\ routed.response.kind = "empty"
    THEN TextResponse(ERRORS[routed.code])
    ELSE routed.response

\* lines 314-323: the status is sent, the context updated, the body dumped
Respond(routed, field, payload) ==
    [auth |-> routed.auth,
     raised |-> IF Serializable(payload) THEN "" ELSE "TypeError",
     code |-> routed.code,
     field |-> field,
     response |-> payload,
     written |-> Serializable(payload),
     ctx |-> [routed.ctx EXCEPT !.keys = @ \cup {field, "code"}],
     ops |-> routed.ops,
     calls |-> routed.calls]

Answered(routed) == Respond(routed, BodyField(routed.code), Payload(routed))

\* MainHTTPHandler.do_POST on the given path, with a body that json.loads
\* parsed (or not) to the value body.  The result has the status sent, the
\* payload of the body under "response" or "error", and written: the body
\* was serialized and written.
do_POST(path, parsed, body, t, score, hit, failAt) ==
    Answered(IF ~parsed THEN Unrouted(BAD_REQUEST)
             ELSE IF ~Truthy(body) THEN Unrouted(OK)
             ELSE IF Strip(path) \in router
             THEN Caught(method_handler(body, PostContext, t, score, hit, failAt))
             ELSE Unrouted(NOT_FOUND))

(***************************************************************************)
(* Request bodies.                                                         *)
(***************************************************************************)
OnlineScoreNames == FieldNames(OnlineScoreRequest)

ClientsInterestsNames == FieldNames(ClientsInterestsRequest)

\* the mapping of the names to the values, without the names that are Absent
Envelope(account, login, token, arguments, method) ==
    LET all == [account |-> account, login |-> login, token |-> token,
                arguments |-> arguments, method |-> method]
    IN  [k \in {n \in DOMAIN all : all[n].t # "absent"} |-> all[k]]

CharsOrEmpty(v) == IF v.t = "str" THEN v.s ELSE <<>>

\* The token the tests give a request (generate_token): an absent account or
\* login counts as the empty string.
ExpectedToken(account, login, t) ==
    IF login.t = "str" /\ login.s = ADMIN_LOGIN
    THEN Sha512Hex(Strftime(t) \o ADMIN_SALT)
    ELSE Sha512Hex(CharsOrEmpty(account) \o CharsOrEmpty(login) \o SALT)

Accounts == {Absent, Null, Str(<<>>), Str(<<"h", "h">>)}

Logins == {Absent, Str(<<>>), Str(<<"h", "f">>), Str(ADMIN_LOGIN)}

Methods ==
    {Absent, Str(<<>>), Str(<<"z">>), Str(Chars_online_score), Str(Chars_clients_interests)}

\* no token, a wrong one, the expected one, and the one expected at the start
Tokens(account, login, t) ==
    {Absent, Str(<<>>), Str(<<"t">>),
     Str(ExpectedToken(account, login, StartTime)), Str(ExpectedToken(account, login, t))}

ScoreArguments == [k \in {"phone", "email"} |-> Sample[k]]

InterestsArguments == [k \in {"client_ids"} |-> Sample[k]]

\* the arguments of the envelopes of every shape
EnvelopeArguments ==
    {Absent, Null, Dict(NoItems), Dict(ScoreArguments), Dict(InterestsArguments)}

\* bodies that are not an envelope at all
OtherBodies == {Null, Num(0), Num(3), Str(<<"x">>), List(<<>>), List(<<IntElem(1)>>)}

Paths == {<<"/">> \o Chars_method, <<"/">> \o Chars_method \o <<"/">>, <<"/", "x">>}

ScoreValues == {0, 3}

\* collaborators that are not reached, or that succeed
Quiet == [score |-> 0, hit |-> FALSE, failAt |-> 0]

\* What the collaborators do in a call: the score and the cache hit of
\* get_score, or the number of the get_interests call that fails (0: none).
ScoreEnvironments ==
    {[score |-> sc, hit |-> h, failAt |-> 0] : sc \in ScoreValues, h \in BOOLEAN}

InterestsEnvironments ==
    {[score |-> 0, hit |-> FALSE, failAt |-> k] : k \in 0..MaxClientIds}

\* the collaborators a request of the given method and login can reach
Environments(method, login) ==
    IF method.t = "str" /\ method.s = Chars_online_score
    THEN IF login.t = "str" /\ login.s = ADMIN_LOGIN
         THEN {Quiet}
         ELSE ScoreEnvironments
    ELSE IF method.t = "str" /\ method.s = Chars_clients_interests
    THEN InterestsEnvironments
    ELSE {Quiet}

(***************************************************************************)
(* The API: a call of method_handler (as the tests make it) or a POST,     *)
(* answered in one step; then the next request.                            *)
(***************************************************************************)
Answer(entry, path, parsed, body, res) ==
    /\ call' = [entry |-> entry, path |-> path, parsed |-> parsed, body |-> body]
    /\ reply' = [raised |-> res.raised, code |-> res.code, field |-> res.field,
                 response |-> res.response, written |-> res.written]
    /\ ctx' = res.ctx
    /\ storeOps' = res.ops
    /\ collab' = res.calls
    /\ auth' = res.auth
    /\ phase' = "responded"
    /\ UNCHANGED <<now, ticks, req, backend, frame>>

CallMethodHandler(body, env) ==
    Answer("method_handler", <<>>, TRUE, body,
           [field |-> "", written |-> FALSE] @@
           method_handler(body, ctx, now, env.score, env.hit, env.failAt))

\* method_handler called as the tests call it: with an envelope of any
\* shape, with an authenticated envelope over argument mappings of which at
\* most MaxOddArguments fields hold an odd value, or with another body.
MethodHandlerCall ==
    /\ phase = "idle"
    /\ \/ \E account \in Accounts, login \in Logins, method \in Methods :
          \E arguments \in EnvelopeArguments :
          \E token \in UNION {Tokens(a, l, now) : a \in Accounts, l \in Logins} :
          \E env \in Environments(method, login) :
             CallMethodHandler(Dict(Envelope(account, login, token, arguments, method)), env)
       \/ \E login \in {Str(<<"h", "f">>), Str(ADMIN_LOGIN)} :
          \E method \in {Str(Chars_online_score), Str(Chars_clients_interests)} :
          \E odd \in OddSets(IF method.s = Chars_online_score THEN OnlineScoreNames
                             ELSE ClientsInterestsNames, MaxOddArguments) :
          \E given \in SUBSET ((IF method.s = Chars_online_score THEN OnlineScoreNames
                                ELSE ClientsInterestsNames) \ odd) :
          \E vals \in [odd -> OddValues], ids \in IdChoices(given) :
          \E env \in Environments(method, login) :
             CallMethodHandler(
                 Dict(Envelope(Sample["account"], login,
                               Str(ExpectedToken(Sample["account"], login, now)),
                               Dict(Mapping(given, odd, vals, ids)), method)), env)
       \/ \E body \in OtherBodies : CallMethodHandler(body, Quiet)

Post(path, parsed, body, env) ==
    Answer("do_POST", path, parsed, IF parsed THEN body ELSE Absent,
           do_POST(path, parsed, body, now, env.score, env.hit, env.failAt))

\* a POST with a body that does not parse, that is not an envelope, or that
\* is an envelope of any shape
DoPOST ==
    /\ phase = "idle"
    /\ \E path \in Paths :
          \/ Post(path, FALSE, Absent, Quiet)
          \/ \E body \in OtherBodies \cup {Dict(NoItems)} : Post(path, TRUE, body, Quiet)
          \/ \E account \in Accounts, login \in Logins, method \in Methods :
             \E arguments \in EnvelopeArguments :
             \E token \in UNION {Tokens(a, l, now) : a \in Accounts, l \in Logins} :
             \E env \in Environments(method, login) :
                Post(path, TRUE,
                     Dict(Envelope(account, login, token, arguments, method)), env)

Finish ==
    /\ phase = "responded"
    /\ call' = NoCall
    /\ reply' = NoReply
    /\ ctx' = EmptyContext
    /\ storeOps' = <<>>
    /\ collab' = <<>>
    /\ auth' = "none"
    /\ phase' = "idle"
    /\ UNCHANGED <<now, ticks, req, backend, frame>>

Next == Tick \/ MethodHandlerCall \/ DoPOST \/ Finish

Spec == Init /\ [][Next]_vars

(***************************************************************************)
(* The store.  A Store method is called with a key, a value and a number   *)
(* of attempts; every turn of its loop sends one command to the server.    *)
(* A frame holds the arguments, the local variables, the outcomes of the   *)
(* commands sent so far, and how the method ended: status "returned" with  *)
(* a result, or "raised" with the exception that left the method.          *)
(***************************************************************************)
Return(f, result) == [f EXCEPT !.status = "returned", !.result = result]

Raise(f, exc) == [f EXCEPT !.status = "raised", !.exc = exc]

\* the frame after the command of this turn had the given outcome
Sent(f, outcome) == [f EXCEPT !.commands = Append(@, outcome)]

\* Store.get returning None after the loop instead of raising
Store_get_returns_none(f, outcome, stored) ==
    IF f.attempts > 0
    THEN CASE outcome = "ok" -> Return([Sent(f, outcome) EXCEPT !.value = stored], stored)
           [] outcome = "TimeoutError" -> [Sent(f, outcome) EXCEPT !.attempts = @ - 1]
           [] OTHER -> Raise(Sent(f, outcome), outcome)
    ELSE Return(f, "None")

\* One turn of Store.get: the body of the loop where attempts > 0, the code
\* after the loop otherwise; stored is what the server holds under the key.
Store_get(f, outcome, stored) ==
    IF f.attempts > 0
    THEN CASE outcome = "ok" -> Return([Sent(f, outcome) EXCEPT !.value = stored], stored)
           [] outcome = "TimeoutError" -> [Sent(f, outcome) EXCEPT !.attempts = @ - 1]
           [] OTHER -> Raise(Sent(f, outcome), outcome)
    ELSE IF f.value = "None" THEN Raise(f, "ConnectionError")
    ELSE Return(f, "None")

\* one turn of Store.set
Store_set(f, outcome) ==
    IF f.attempts > 0
    THEN CASE outcome = "ok" -> Return(Sent(f, outcome), "True")
           [] outcome = "TimeoutError" -> [Sent(f, outcome) EXCEPT !.attempts = @ - 1]
           [] OTHER -> Raise(Sent(f, outcome), outcome)
    ELSE Return(f, "False")

\* one turn of Store.cache_get
Store_cache_get(f, outcome, stored) ==
    IF f.attempts > 0
    THEN CASE outcome = "ok" -> Return([Sent(f, outcome) EXCEPT !.value = stored], stored)
           [] outcome = "TimeoutError" -> [Sent(f, outcome) EXCEPT !.attempts = @ - 1]
           [] OTHER -> Raise(Sent(f, outcome), outcome)
    ELSE Return(f, "None")

\* one turn of Store.cache_set
Store_cache_set(f, outcome) ==
    IF f.attempts > 0
    THEN CASE outcome = "ok" -> Return(Sent(f, outcome), "None")
           [] outcome = "TimeoutError" -> [Sent(f, outcome) EXCEPT !.attempts = @ - 1]
           [] OTHER -> Raise(Sent(f, outcome), outcome)
    ELSE Return(f, "None")

\* the server after a write command with the given outcome
Written(f, outcome) ==
    IF f.attempts > 0 /\ outcome = "ok" THEN [backend EXCEPT ![f.key] = f.arg]
    ELSE backend

Running(op) == frame.status = "running" /\ frame.op = op

Rest == <<now, ticks, phase, req, call, reply, ctx, storeOps, collab, auth>>

\* a Store method is called
StoreCall ==
    /\ frame.status = "idle"
    /\ \E op \in {"get", "set", "cache_get", "cache_set"}, key \in Keys,
          arg \in Stored, n \in 0..MaxAttempts :
          frame' = [NoFrame EXCEPT !.op = op, !.key = key,
                                   !.arg = IF op \in {"set", "cache_set"} THEN arg
                                           ELSE "None",
                                   !.n = n, !.attempts = n, !.status = "running"]
    /\ UNCHANGED <<backend, Rest>>

GetTurn ==
    /\ Running("get")
    /\ \E outcome \in Outcomes : frame' = Store_get(frame, outcome, backend[frame.key])
    /\ UNCHANGED <<backend, Rest>>

SetTurn ==
    /\ Running("set")
    /\ \E outcome \in Outcomes :
          /\ frame' = Store_set(frame, outcome)
          /\ backend' = Written(frame, outcome)
    /\ UNCHANGED Rest

CacheGetTurn ==
    /\ Running("cache_get")
    /\ \E outcome \in Outcomes :
          frame' = Store_cache_get(frame, outcome, backend[frame.key])
    /\ UNCHANGED <<backend, Rest>>

CacheSetTurn ==
    /\ Running("cache_set")
    /\ \E outcome \in Outcomes :
          /\ frame' = Store_cache_set(frame, outcome)
          /\ backend' = Written(frame, outcome)
    /\ UNCHANGED Rest

\* the caller has the result or the exception
StoreDone ==
    /\ frame.status \in {"returned", "raised"}
    /\ frame' = NoFrame
    /\ UNCHANGED <<backend, Rest>>

NextStore == StoreCall \/ GetTurn \/ SetTurn \/ CacheGetTurn \/ CacheSetTurn \/ StoreDone

\* A command blocks for at most the socket timeout, so a method that is
\* being executed takes its next turn.
SpecStore ==
    /\ Init
    /\ [][NextStore]_vars
    /\ WF_vars(GetTurn) /\ WF_vars(SetTurn) /\ WF_vars(CacheGetTurn) /\ WF_vars(CacheSetTurn)

(***************************************************************************)
(* Properties of the schema engine (SpecValidate).                         *)
(***************************************************************************)
Validated == phase = "validated"

DeclaredFields == Schemas[req.schema]

ErrorKeys == DOMAIN req.errors

\* The empty-value set of the specification: null, empty string, empty list,
\* empty mapping.
InSpecEmptySet(v) ==
    \/ InEmptyValues(v)
    \/ v.t = "dict" /\ DOMAIN v.d = {}

\* A declared field violates its own required / blank / format rule.
FieldViolates(f, kwargs, t) ==
    IF f.name \notin DOMAIN kwargs THEN f.required
    ELSE \/ InEmptyValues(kwargs[f.name]) /\ ~f.nullable
         \/ Field_validate(f.type, kwargs[f.name], t).res # "ok"

Violators(fields, kwargs, t) ==
    {fields[i].name : i \in {j \in 1..Len(fields) : FieldViolates(fields[j], kwargs, t)}}

\* C1: after validate(), an absent field has an error iff it is required, and
\* a field present with a value of the empty-value set (null, empty string,
\* empty list, empty mapping) has an error iff it is not nullable.
C1_RequiredAndNullable ==
    (Validated /\ ~req.raised) =>
        \A i \in 1..Len(DeclaredFields) :
            LET f == DeclaredFields[i]
            IN  /\ f.name \notin req.base_fields =>
                     (f.name \in ErrorKeys <=> f.required)
                /\ (f.name \in req.base_fields /\ InSpecEmptySet(req.kwargs[f.name])) =>
                     (f.name \in ErrorKeys <=> ~f.nullable)

PairsOfFields == {{"phone", "email"}, {"first_name", "last_name"}, {"gender", "birthday"}}

PairSupplied == \E pair \in PairsOfFields : pair \subseteq req.base_fields

PerFieldViolators == Violators(DeclaredFields, req.kwargs, now)

\* C2: an OnlineScoreRequest in which no field violates its own rule is valid
\* iff one of the pairs (phone, email), (first_name, last_name), (gender,
\* birthday) is supplied in full, and otherwise its error map has exactly the
\* key "arguments"; the key "arguments" is never set together with a
\* per-field error.
C2_CrossFieldRule ==
    (Validated /\ req.schema = "OnlineScoreRequest") =>
        /\ PerFieldViolators = {} =>
             /\ ~req.raised
             /\ is_valid(req.errors) <=> PairSupplied
             /\ ~PairSupplied => ErrorKeys = {"arguments"}
        /\ (PerFieldViolators # {} \/ ErrorKeys \ {"arguments"} # {}) =>
             "arguments" \notin ErrorKeys

C2_Witness ==
    /\ Validated /\ req.schema = "OnlineScoreRequest"
    /\ req.base_fields = {"phone", "first_name", "gender"}
    /\ ErrorKeys = {"arguments"}

\* C3: after validate(), the keys of the error map are exactly the declared
\* fields that violate their own required / blank / format rule: the failure
\* of one field never hides the verdict on another.
C3_ErrorsNameEveryViolator ==
    Validated =>
        ErrorKeys \cap FieldNames(DeclaredFields) = PerFieldViolators

\* C4: validate() returns normally on every mapping of JSON values; no
\* exception of a field descriptor escapes the schema engine.
C4_ValidateNeverRaises == Validated => ~req.raised

\* What holds of a validate() that returned: it names every violator.
ReturnedNamesEveryViolator ==
    (Validated /\ ~req.raised) =>
        ErrorKeys \cap FieldNames(DeclaredFields) = PerFieldViolators

(***************************************************************************)
(* Properties of the dispatcher (Spec).                                    *)
(***************************************************************************)
Responded == phase = "responded"

Direct == call.entry = "method_handler"

Posted == call.entry = "do_POST"

IsEnvelope == call.parsed /\ call.body.t = "dict"

EnvelopeFields == call.body.d

\* the envelope passes MethodRequest validation: no declared field violates
\* its rule
EnvelopeValid == IsEnvelope /\ Violators(MethodRequest, EnvelopeFields, now) = {}

FieldOrAbsent(kwargs, name) == IF name \in DOMAIN kwargs THEN kwargs[name] ELSE Absent

\* the supplied token equals the expected token
TokenMatches ==
    EnvelopeFields["token"].s =
        ExpectedToken(FieldOrAbsent(EnvelopeFields, "account"), EnvelopeFields["login"], now)

MethodIs(chars) == EnvelopeFields["method"].s = chars

Arguments == EnvelopeFields["arguments"].d

HandlerTouched == storeOps # <<>> \/ collab # <<>> \/ ctx # EmptyContext

\* C5: method_handler checks in a fixed order: an envelope that fails schema
\* validation gets 422 whatever its token; one that validates but whose token
\* is not the expected one gets 403 with the forbidden message; a store call
\* or context write happens only after validation and authentication.
C5_ValidateThenAuthenticate ==
    (Responded /\ Direct /\ IsEnvelope) =>
        /\ ~EnvelopeValid => (reply.raised = "" /\ reply.code = INVALID_REQUEST)
        /\ (EnvelopeValid /\ ~TokenMatches) =>
             /\ reply.raised = ""
             /\ reply.code = FORBIDDEN
             /\ reply.response = TextResponse(ERRORS[FORBIDDEN])
        /\ HandlerTouched => (EnvelopeValid /\ TokenMatches)

\* C6: on every envelope that passed validation, check_auth returns a boolean,
\* true iff the supplied token equals the expected token, and never raises.
C6_CheckAuthReturnsBoolean ==
    (Responded /\ Direct /\ EnvelopeValid) =>
        /\ auth \in {"true", "false"}
        /\ auth = "true" <=> TokenMatches

\* C7: the body {} gets status 422, from method_handler and from a POST to
\* the /method route.
C7_EmptyBodyIsInvalid ==
    (Responded /\ IsEnvelope /\ DOMAIN EnvelopeFields = {}
       /\ (Posted => Strip(call.path) \in router)) =>
        (reply.raised = "" /\ reply.code = INVALID_REQUEST)

ScoreRequest == EnvelopeValid /\ MethodIs(Chars_online_score)

AdminLogin == EnvelopeFields["login"].s = ADMIN_LOGIN

\* the arguments pass OnlineScoreRequest validation
ScoreArgumentsValid ==
    /\ Violators(OnlineScoreRequest, Arguments, now) = {}
    /\ \E pair \in PairsOfFields : pair \subseteq DOMAIN Arguments

\* C8 as stated: every online_score request of the admin with a valid token
\* gets {"score": 42} and 200 whatever its arguments, with no store operation.
C8_AdminScoreWhateverArguments ==
    (Responded /\ Direct /\ ScoreRequest /\ AdminLogin /\ TokenMatches) =>
        /\ reply.raised = "" /\ reply.code = OK
        /\ reply.response = ScoreResponse(42)
        /\ storeOps = <<>>

\* C8, amended: every online_score request that passes authentication and
\* whose arguments pass OnlineScoreRequest validation gets 200; for the admin
\* the result is {"score": 42} and no store operation is performed, for any
\* other login the score is the value the scoring collaborator returned.
C8_AdminScore ==
    (Responded /\ Direct /\ ScoreRequest /\ ScoreArgumentsValid) =>
        /\ (AdminLogin /\ TokenMatches) =>
             /\ reply.raised = "" /\ reply.code = OK
             /\ reply.response = ScoreResponse(42)
             /\ storeOps = <<>> /\ collab = <<>>
        /\ (~AdminLogin /\ auth = "true") =>
             /\ reply.raised = "" /\ reply.code = OK
             /\ Len(collab) = 1 /\ collab[1].fn = "get_score"
             /\ reply.response = ScoreResponse(collab[1].ret)

C8_Witness ==
    /\ Responded /\ Direct /\ ScoreRequest /\ ScoreArgumentsValid
    /\ AdminLogin /\ TokenMatches
    /\ DOMAIN Arguments = {"gender", "birthday"}
    /\ reply.code = OK /\ reply.response = ScoreResponse(42)

InterestsRequest == EnvelopeValid /\ MethodIs(Chars_clients_interests)

InterestsArgumentsValid == Violators(ClientsInterestsRequest, Arguments, now) = {}

ClientIds == Arguments["client_ids"].l

LookupsInOrder == [i \in 1..Len(ClientIds) |-> [op |-> "get", key |-> InterestsKey(ClientIds[i])]]

\* C9 as stated: the result of a valid clients_interests request has as many
\* entries as client_ids has elements, one per client id, after one store
\* lookup per element in input order, and the context has nclients =
\* len(client_ids).
C9_OneEntryPerElement ==
    (Responded /\ Direct /\ InterestsRequest /\ InterestsArgumentsValid
       /\ auth = "true" /\ reply.raised = "") =>
        /\ reply.code = OK
        /\ Cardinality(DOMAIN reply.response.interests) = Len(ClientIds)
        /\ DOMAIN reply.response.interests = {ClientIds[i].n : i \in 1..Len(ClientIds)}
        /\ storeOps = LookupsInOrder
        /\ "nclients" \in ctx.keys /\ ctx.nclients = Len(ClientIds)

\* C9, amended: the result of a valid clients_interests request whose lookups
\* all succeed has one entry per distinct client id (as many entries as
\* client_ids has elements only when the ids are pairwise distinct, True and 1
\* being one key), after one store lookup per element in input order, and the
\* context has nclients = len(client_ids).
C9_OneEntryPerDistinctId ==
    (Responded /\ Direct /\ InterestsRequest /\ InterestsArgumentsValid
       /\ auth = "true" /\ reply.raised = "") =>
        /\ reply.code = OK
        /\ DOMAIN reply.response.interests = {ClientIds[i].n : i \in 1..Len(ClientIds)}
        /\ (\A i, j \in 1..Len(ClientIds) : i # j => ClientIds[i].n # ClientIds[j].n) =>
             Cardinality(DOMAIN reply.response.interests) = Len(ClientIds)
        /\ storeOps = LookupsInOrder
        /\ "nclients" \in ctx.keys /\ ctx.nclients = Len(ClientIds)

C9_Witness ==
    /\ Responded /\ Direct /\ InterestsRequest /\ InterestsArgumentsValid
    /\ auth = "true" /\ reply.raised = "" /\ reply.code = OK
    /\ Len(ClientIds) = 2 /\ ClientIds[1].n = ClientIds[2].n
    /\ Cardinality(DOMAIN reply.response.interests) = 1
    /\ ctx.nclients = 2

\* C10: an envelope that passes validation and authentication with a method
\* other than "online_score" and "clients_interests" gets status 404; no
\* exception leaves method_handler and no 500 is sent.
C10_UnknownMethodIsNotFound ==
    (Responded /\ EnvelopeValid /\ auth = "true"
       /\ EnvelopeFields["method"].s \notin handlers
       /\ (Posted => Strip(call.path) \in router)) =>
        (reply.raised = "" /\ reply.code = NOT_FOUND)

\* the call is an envelope whose method is online_score
IsScoreCall ==
    /\ IsEnvelope
    /\ "method" \in DOMAIN EnvelopeFields
    /\ EnvelopeFields["method"].t = "str"
    /\ MethodIs(Chars_online_score)

\* C12: after an online_score request answered 200, by the admin branch or by
\* the scoring branch, ctx["has"] holds exactly the names of the supplied
\* argument fields; a request answered 422 or 403 leaves the context as the
\* caller passed it.
C12_ContextRecordsSuppliedFields ==
    (Responded /\ Direct /\ IsScoreCall /\ reply.raised = "") =>
        /\ reply.code = OK =>
             /\ ctx.keys = {"has"}
             /\ ctx.has = DOMAIN Arguments
        /\ reply.code \in {INVALID_REQUEST, FORBIDDEN} => ctx = EmptyContext

C12_Witness ==
    /\ Responded /\ Direct /\ IsScoreCall
    /\ reply.raised = "" /\ reply.code = OK
    /\ ~AdminLogin
    /\ ctx.has = {"first_name", "last_name", "gender"}

(***************************************************************************)
(* Properties of the store (SpecStore).                                    *)
(***************************************************************************)
Ended == frame.status \in {"returned", "raised"}

\* C11: cache_get returns the stored value or None and cache_set returns
\* normally, whatever the outcomes of the commands they send (an answer, a
\* timeout, a connection failure); neither raises to its caller.
C11_CacheIsBestEffort ==
    frame.op \in {"cache_get", "cache_set"} =>
        /\ frame.status # "raised"
        /\ frame.status = "returned" =>
              IF frame.op = "cache_get"
              THEN frame.result \in {backend[frame.key], "None"}
              ELSE frame.result = "None"

TimedOut(i) == frame.commands[i] = "TimeoutError"

\* what holds of a Store.get at every moment
GetSafety ==
    frame.op = "get" =>
        /\ Len(frame.commands) <= frame.n
        /\ \A i \in 1..(Len(frame.commands) - 1) : TimedOut(i)
        /\ (frame.commands # <<>> /\ frame.commands[Len(frame.commands)] = "ok") =>
              (frame.status = "returned" /\ frame.result = backend[frame.key])
        /\ frame.status = "returned" =>
              (frame.commands # <<>> /\ frame.commands[Len(frame.commands)] = "ok")
        /\ Ended =>
              ((frame.status = "raised" /\ frame.exc = "ConnectionError") <=>
               (Len(frame.commands) = frame.n /\ \A i \in 1..frame.n : TimedOut(i)))

\* C13: Store.get(key, attempts=n) ends, after at most n reads: it returns
\* what the first read that does not time out returned (None for a missing
\* key) and reads no further, and it raises ConnectionError exactly when all
\* n reads timed out.
C13_GetEndsWithinAttempts ==
    /\ []GetSafety
    /\ Running("get") ~> (frame.op = "get" /\ Ended)

C13_Witness ==
    /\ frame.op = "get" /\ frame.status = "returned"
    /\ frame.n = 3
    /\ frame.commands = <<"TimeoutError", "TimeoutError", "ok">>
    /\ frame.result = "a"

====
